---- MODULE Spec2Model ----
(***************************************************************************)
(* A model of CNTV2DeviceScanner (ajantv2/src/ntv2devicescanner.cpp): the  *)
(* process-wide device list sDevInfoList, the lock sDevInfoListLock that   *)
(* guards it, ScanHardware and the operations that read the list or        *)
(* resolve a criterion to a device.  The driver (CNTV2Card) is the         *)
(* environment: a row of local slots, each empty or holding a card.        *)
(***************************************************************************)
EXTENDS Integers, Sequences, FiniteSets, TLC

\* ------------------------------------------------------------------ bounds

\* Number of local slots the driver can expose (slots 0 .. MaxSlots-1).
MaxSlots == 2

\* Longest list handed to CompareDeviceInfoLists.
MaxListLen == 2

\* The longest text handed to a classifier, its prefix apart.
MaxTextLen == 17

\* ------------------------------------------------------- program constants

\* DEVICE_ID_NOTFOUND is NTV2DeviceID(0xFFFFFFFF): the 32 bits read as a signed
\* number.
DEVICE_ID_NOTFOUND == -1

\* First index handed to a virtual device (int vdIndex = 100).
VirtualIndexBase == 100

\* ------------------------------------------------------------- environment

Threads == {"t1", "t2"}
NoThread == "nobody"

Slots == 0 .. (MaxSlots - 1)

NoCard == [id |-> 0, serial |-> 0, present |-> FALSE]

\* The cards that may sit in a slot.  The first one opens but reports the
\* "not found" family id.
Cards ==
  { [id |-> DEVICE_ID_NOTFOUND, serial |-> 0, present |-> TRUE],
    [id |-> 1, serial |-> 1, present |-> TRUE],
    [id |-> 2, serial |-> 2, present |-> TRUE] }

\* Two cards of one family, the second without a legal serial number.
FamilyCards ==
  { [id |-> 1, serial |-> 1, present |-> TRUE],
    [id |-> 1, serial |-> 0, present |-> TRUE] }

\* A card named by the legacy alias, one of the product name it stands for,
\* and one of neither.
LegacyCards ==
  { [id |-> 1, serial |-> 1, present |-> TRUE],
    [id |-> 3, serial |-> 2, present |-> TRUE],
    [id |-> 4, serial |-> 2, present |-> TRUE] }

DeviceIDs == {1, 2}
SerialNumbers == {1, 2}

\* ----------------------------------------------------------------- strings
\* A string is a sequence of one-character strings.

UpperChars ==
  <<"A", "B", "C", "D", "E", "F", "G", "H", "I", "J", "K", "L", "M",
    "N", "O", "P", "Q", "R", "S", "T", "U", "V", "W", "X", "Y", "Z">>
LowerChars ==
  <<"a", "b", "c", "d", "e", "f", "g", "h", "i", "j", "k", "l", "m",
    "n", "o", "p", "q", "r", "s", "t", "u", "v", "w", "x", "y", "z">>
DigitChars == <<"0", "1", "2", "3", "4", "5", "6", "7", "8", "9">>

Range(s) == { s[i] : i \in DOMAIN s }

\* CNTV2DeviceScanner::IsAlphaNumeric (const char)
IsAlphaNumericChar(c) ==
  c \in Range(DigitChars) \cup Range(UpperChars) \cup Range(LowerChars)

\* CNTV2DeviceScanner::IsAlphaNumeric (const string &): vacuously true of "".
IsAlphaNumeric(str) == \A i \in DOMAIN str : IsAlphaNumericChar(str[i])

\* aja::lower on one character
LowerChar(c) ==
  IF c \in Range(UpperChars)
    THEN LowerChars[CHOOSE i \in DOMAIN UpperChars : UpperChars[i] = c]
    ELSE c

\* aja::lower
Lower(str) == [i \in DOMAIN str |-> LowerChar(str[i])]

\* aja::upper on one character, and on a string
UpperChar(c) ==
  IF c \in Range(LowerChars)
    THEN UpperChars[CHOOSE i \in DOMAIN LowerChars : LowerChars[i] = c]
    ELSE c

Upper(str) == [i \in DOMAIN str |-> UpperChar(str[i])]

\* string::find(needle) != string::npos
Contains(hay, needle) ==
  \E i \in 1 .. (Len(hay) - Len(needle) + 1) :
    SubSeq(hay, i, i + Len(needle) - 1) = needle

\* ostream << boardNum: the decimal digits of a number
RECURSIVE DecStr(_)
DecStr(n) ==
  IF n < 10 THEN <<DigitChars[n + 1]>>
  ELSE DecStr(n \div 10) \o <<DigitChars[(n % 10) + 1]>>

\* A text of decimal digits and the number it spells.
IsDecimal(str) == str # <<>> /\ \A i \in DOMAIN str : str[i] \in Range(DigitChars)

RECURSIVE DecVal(_)
DecVal(str) ==
  IF str = <<>> THEN 0
  ELSE 10 * DecVal(SubSeq(str, 1, Len(str) - 1))
         + (CHOOSE d \in 0 .. 9 : DigitChars[d + 1] = str[Len(str)])

\* The least member of a non-empty set of numbers.
Least(S) == CHOOSE i \in S : \A j \in S : i <= j

\* ::NTV2DeviceIDToString
NTV2DeviceIDToString(id) ==
  CASE id = 1 -> <<"K", "a">>
    [] id = 2 -> <<"k", "B">>
    [] id = 3 -> <<"I", "o", "4", "K", "P", "l", "u", "s">>
    [] id = 4 -> <<"A", "v", "i", "d", " ", "D", "N", "x", "I", "V">>
    [] id = 0 -> <<>>
    [] OTHER  -> <<"?", "?", "?">>

\* ------------------------------------------------------------------- state

VARIABLES
  catalog,         \* which cards exist to be plugged in: "all", "family 1", "one family",
                   \* "legacy"
  menu,            \* menu[t]: which calls thread t makes: "all", "some", "few", "names",
                   \* "legacy", "reuse", "none"
  hw,              \* hw[n]: the card in local slot n, or NoCard
  virtualSupport,  \* the build defines VIRTUAL_DEVICES_SUPPORT
  cfgFile,         \* the virtual-device mapping file: "valid", "absent", "malformed"
  sDevInfoList,    \* static NTV2DeviceInfoList sDevInfoList
  lockOwner,       \* sDevInfoListLock: the thread holding it, or NoThread
  lockDepth,       \* ... and how many times that thread holds it
  pc,              \* pc[t]: where thread t is in its operation
  op,              \* op[t]: the operation thread t is in
  arg,             \* arg[t]: its argument
  boardNum,        \* boardNum[t]: ScanHardware's loop variable
  probed,          \* probed[t]: what each slot probed by t's running scan answered
  nOpenTmp,        \* nOpenTmp[t]: tmpDev handles t's scan holds open
  handle,          \* handle[t]: the caller's outDevice
  ret,             \* ret[t]: what the finished operation returned
  seen,            \* seen[t]: sDevInfoList as t's operation read it
  scanned,         \* scanned[t]: whether t's operation rescanned, and the list that left
  dirty,           \* dirty[t]: the hardware changed while t's operation ran
  published,       \* the list as the last finished ScanHardware left it
  pubLog,          \* what the slots answered to that scan
  nScans           \* whether any ScanHardware has finished ("none", "some")

vars ==
  <<catalog, menu, hw, virtualSupport, cfgFile, sDevInfoList, lockOwner, lockDepth, pc, op,
    arg, boardNum, probed, nOpenTmp, handle, ret, seen, scanned, dirty,
    published, pubLog, nScans>>

envVars == <<catalog, menu, virtualSupport, cfgFile>>
lockVars == <<lockOwner, lockDepth>>
scanVars == <<boardNum, probed, nOpenTmp>>
pubVars == <<published, pubLog, nScans>>

NotScanned == [did |-> FALSE, list |-> <<>>]
NoArg == [kind |-> "none"]
NoRet == [kind |-> "none"]
NoSlot == 0 - 1
NoHost == <<>>
Closed == [open |-> FALSE, slot |-> NoSlot, card |-> NoCard, remote |-> FALSE, host |-> NoHost]

\* ------------------------------------------------------------- the driver

\* CNTV2Card(boardNum).IsOpen(), CNTV2Card::Open(UWord): slot n opens iff it
\* exists and holds a card.
CanOpen(n) == n \in Slots /\ hw[n].present

\* The handle CNTV2Card::Open(n) leaves: open on the card in slot n, or closed.
OpenAt(n) ==
  IF CanOpen(n)
    THEN [open |-> TRUE, slot |-> n, card |-> hw[n], remote |-> FALSE, host |-> NoHost]
    ELSE Closed

\* UWord(x): a 16-bit unsigned value.
UWord(x) == x % 65536

\* CNTV2Card::Open(const string &) on a locator: the hosts that answer.
RemoteCard == [id |-> 2, serial |-> 2, present |-> TRUE]
ReachableLocators == { <<"h", ":", "1">> }

\* CNTV2Card::SerialNum64ToString: the text of a 64-bit serial number; empty
\* when the number holds no legal text.
SerialNum64ToString(serial) ==
  IF serial = 0 THEN <<>> ELSE <<"S">> \o DecStr(serial)

\* CNTV2Card(n).GetSerialNumberString(str): the serial text read from the card
\* in slot n now; none when the slot does not open or the card has no legal
\* serial text.
LiveSerialString(n) ==
  IF CanOpen(n) THEN SerialNum64ToString(hw[n].serial) ELSE <<>>

HasSerialString(n) == LiveSerialString(n) # <<>>

\* The local slots a text names as a serial text, and as a family name.
SlotsWithSerialString(str) ==
  { n \in Slots : HasSerialString(n) /\ LiveSerialString(n) = str }

SlotsWithFamilyName(str) ==
  { n \in Slots : CanOpen(n) /\ NTV2DeviceIDToString(hw[n].id) = str }

\* CNTV2Card::Open(const string &): the handle it leaves.  A locator of a
\* host that answers opens the remote device; a text that names a local
\* device (by serial text, by family name, by index number, the forms
\* GetDeviceRefName hands out) opens the first local device it names;
\* anything else opens nothing.
OpenLocator(str) ==
  IF str \in ReachableLocators
    THEN [open |-> TRUE, slot |-> 0, card |-> RemoteCard, remote |-> TRUE, host |-> str]
  ELSE IF SlotsWithSerialString(str) # {} THEN OpenAt(Least(SlotsWithSerialString(str)))
  ELSE IF SlotsWithFamilyName(str) # {} THEN OpenAt(Least(SlotsWithFamilyName(str)))
  ELSE IF IsDecimal(str) THEN OpenAt(DecVal(str))
  ELSE Closed

\* The content of the virtual-device mapping file when it parses:
\* serial text -> its virtual devices.
VdMapFile ==
  [ s \in {SerialNum64ToString(1)} |->
      << [vdID |-> <<"v", "a">>, vdName |-> <<"V", "A">>],
         [vdID |-> <<"v", "b">>, vdName |-> <<"V", "B">>] >> ]

EmptyVdMap == [ s \in {} |-> <<>> ]

\* ------------------------------------------------------------ ScanHardware

\* Mutant: every record gets index 0.
Mut_DeviceIndexZero(n) == 0

\* info.deviceIndex = boardNum
DeviceIndexOf(n) == n

\* oss << NTV2DeviceIDToString(deviceID, ...) << " - " << boardNum
DeviceIdentifierOf(id, n) ==
  NTV2DeviceIDToString(id) \o <<" ", "-", " ">> \o DecStr(n)

\* The NTV2DeviceInfo ScanHardware builds for the card in slot n.
MakeDeviceInfo(n, card) ==
  [ deviceIndex        |-> DeviceIndexOf(n),
    deviceID           |-> card.id,
    deviceSerialNumber |-> card.serial,
    deviceIdentifier   |-> DeviceIdentifierOf(card.id, n),
    isVirtualDevice    |-> FALSE,
    virtualDeviceID    |-> <<>>,
    virtualDeviceName  |-> <<>> ]

\* Mutant: the scan keeps every card that opens.
Mut_ScanKeepsAll(id) == TRUE

\* if (deviceID != DEVICE_ID_NOTFOUND)
ScanKeeps(id) == id # DEVICE_ID_NOTFOUND

\* Mutant: the scan does not clear the list.
Mut_NotCleared(list) == list

\* sDevInfoList.clear()
ClearedList(list) == <<>>

\* GetSerialToVirtualDeviceMap: the map it fills; nothing when the file
\* cannot be opened.
GetSerialToVirtualDeviceMap ==
  IF cfgFile = "valid" THEN VdMapFile ELSE EmptyVdMap

\* json::parse throws on a file that opens but does not parse; nothing
\* catches it.
ConfigThrows == virtualSupport /\ cfgFile = "malformed"

\* The records the virtual-device loop builds from one hardware record:
\* one per mapped virtual device, indexed from vdIndex upward.
VirtualInfosOf(hwInfo, vdevs, vdIndex) ==
  [ k \in 1 .. Len(vdevs) |->
      [ hwInfo EXCEPT !.deviceIndex = vdIndex + (k - 1),
                      !.isVirtualDevice = TRUE,
                      !.virtualDeviceID = vdevs[k].vdID,
                      !.virtualDeviceName = vdevs[k].vdName ] ]

\* for (auto hwInfo : hwList): every record the loop hands to push_back, in
\* order, vdIndex running on from one hardware record to the next.
RECURSIVE VirtualInfos(_, _, _)
VirtualInfos(hwList, vdMap, vdIndex) ==
  IF hwList = <<>> THEN <<>>
  ELSE LET hwSN  == SerialNum64ToString(Head(hwList).deviceSerialNumber)
           vdevs == IF hwSN \in DOMAIN vdMap THEN vdMap[hwSN] ELSE <<>>
       IN  VirtualInfosOf(Head(hwList), vdevs, vdIndex)
             \o VirtualInfos(Tail(hwList), vdMap, vdIndex + Len(vdevs))

\* GetDeviceInfoList().push_back(hwInfo): GetDeviceInfoList returns the list
\* by value, so each record is pushed onto a temporary that dies with the
\* statement; sDevInfoList keeps what it held.
PushBackVirtual(list, infos) == list

\* The list when ScanHardware's slot loop has ended.
ListAfterVirtual(list) ==
  IF virtualSupport
    THEN PushBackVirtual(list,
           VirtualInfos(list, GetSerialToVirtualDeviceMap, VirtualIndexBase))
    ELSE list

\* ---------------------------------------------------------------- the lock

\* AJAAutoLock tmpLock(&sDevInfoListLock): AJALock may be taken again by the
\* thread that holds it.
CanLock(t) == lockOwner \in {NoThread, t}

OwnerAfterLock(t) == t
DepthAfterLock(t) == lockDepth + 1

\* ~AJAAutoLock: one hold given back.
OwnerAfterUnlock(t) == IF lockDepth = 1 THEN NoThread ELSE lockOwner
DepthAfterUnlock(t) == lockDepth - 1

\* Mutant: ScanHardware waits until nobody holds the lock, its own caller
\* included.
Mut_ScanWaitsForAll(t) == lockOwner = NoThread

\* Mutant: ScanHardware does not wait for the lock.
Mut_ScanNeverWaits(t) == TRUE

\* AJAAutoLock tmpLock(&sDevInfoListLock) as the first statement of
\* ScanHardware: the scan waits for the lock.
ScanMayEnter(t) == CanLock(t)

\* Mutant: a reader does not wait for the lock.
Mut_ReaderNeverWaits(t) == TRUE

\* AJAAutoLock tmpLock(&sDevInfoListLock) in the operations that read the
\* list: each waits for the lock before it reads.
ReaderMayEnter(t) == CanLock(t)

\* ------------------------------------------------------------- operations

Resolvers ==
  { "GetDeviceAtIndex", "GetFirstDeviceWithID", "GetFirstDeviceWithName",
    "GetFirstDeviceWithSerial", "GetDeviceWithSerial",
    "GetFirstDeviceFromArgument" }

\* The alphanumeric and the other name queries the callers make.
NameQueries ==
  { <<>>, <<"k">>, <<"K", "A">>, <<"b">>, <<"1">>, <<"x">>,
    <<"-">>, <<"h", ":", "1">>, <<"h", ":", "2">> }

\* The serial-number texts the callers ask for.
SerialQueries == { <<>>, <<"s", "1">>, <<"S">>, <<"2">>, <<"x">> }

\* The arguments the callers hand to GetFirstDeviceFromArgument: nothing, the
\* listing commands, locators, and the names GetDeviceRefName gives devices.
ArgQueries ==
  { <<>>, <<"?">>, <<"L", "I", "S", "T">>, <<"l", "i", "s", "t">>, <<"L", "i", "s", "T">>,
    <<"h", ":", "1">>, <<"h", ":", "2">>, <<"S", "1">>, <<"K", "a">>,
    <<"0">>, <<"1">>, <<"x">> }

Calls ==
  { [op |-> "ScanHardware", arg |-> NoArg],
    [op |-> "GetNumDevices", arg |-> NoArg],
    [op |-> "GetDeviceInfoList", arg |-> NoArg] }
  \cup { [op |-> "GetDeviceInfo", arg |-> [index |-> i, rescan |-> r]] :
           i \in 0 .. MaxSlots, r \in BOOLEAN }
  \cup { [op |-> "DeviceIDPresent", arg |-> [id |-> d, rescan |-> r]] :
           d \in DeviceIDs, r \in BOOLEAN }
  \cup { [op |-> "GetDeviceAtIndex", arg |-> [index |-> i]] : i \in 0 .. MaxSlots }
  \cup { [op |-> "GetFirstDeviceWithID", arg |-> [id |-> d]] : d \in DeviceIDs }
  \cup { [op |-> "GetFirstDeviceWithName", arg |-> [name |-> q]] : q \in NameQueries }
  \cup { [op |-> "GetDeviceWithSerial", arg |-> [serial |-> n]] : n \in SerialNumbers }
  \cup { [op |-> "GetFirstDeviceWithSerial", arg |-> [text |-> q]] : q \in SerialQueries }
  \cup { [op |-> "GetFirstDeviceFromArgument", arg |-> [name |-> q]] : q \in ArgQueries }

\* The calls of a thread that runs beside another: every operation, with and
\* without a rescan where it has the choice.
ConcurrentCalls ==
  { [op |-> "ScanHardware", arg |-> NoArg],
    [op |-> "GetNumDevices", arg |-> NoArg],
    [op |-> "GetDeviceInfoList", arg |-> NoArg],
    [op |-> "GetDeviceInfo", arg |-> [index |-> 1, rescan |-> FALSE]],
    [op |-> "GetDeviceInfo", arg |-> [index |-> 0, rescan |-> TRUE]],
    [op |-> "DeviceIDPresent", arg |-> [id |-> 1, rescan |-> FALSE]],
    [op |-> "DeviceIDPresent", arg |-> [id |-> 1, rescan |-> TRUE]],
    [op |-> "GetDeviceAtIndex", arg |-> [index |-> 1]],
    [op |-> "GetFirstDeviceWithID", arg |-> [id |-> 1]],
    [op |-> "GetFirstDeviceWithName", arg |-> [name |-> <<"k">>]],
    [op |-> "GetFirstDeviceWithName", arg |-> [name |-> <<"h", ":", "1">>]],
    [op |-> "GetDeviceWithSerial", arg |-> [serial |-> 1]],
    [op |-> "GetFirstDeviceWithSerial", arg |-> [text |-> <<"s", "1">>]],
    [op |-> "GetFirstDeviceFromArgument", arg |-> [name |-> <<"h", ":", "1">>]] }

\* The calls of the thread that runs beside it: a scan, a read of the list,
\* and an operation that rescans and then searches.
InterferingCalls ==
  { [op |-> "ScanHardware", arg |-> NoArg],
    [op |-> "GetNumDevices", arg |-> NoArg],
    [op |-> "DeviceIDPresent", arg |-> [id |-> 1, rescan |-> TRUE]] }

\* The calls of a caller that hands devices' reference names back to
\* GetFirstDeviceFromArgument, beside one call of every other operation.
RoundTripCalls ==
  { [op |-> "ScanHardware", arg |-> NoArg],
    [op |-> "GetNumDevices", arg |-> NoArg],
    [op |-> "GetDeviceInfoList", arg |-> NoArg],
    [op |-> "GetDeviceInfo", arg |-> [index |-> 0, rescan |-> FALSE]],
    [op |-> "DeviceIDPresent", arg |-> [id |-> 1, rescan |-> FALSE]],
    [op |-> "GetDeviceAtIndex", arg |-> [index |-> 1]],
    [op |-> "GetFirstDeviceWithID", arg |-> [id |-> 1]],
    [op |-> "GetFirstDeviceWithName", arg |-> [name |-> <<"k">>]],
    [op |-> "GetDeviceWithSerial", arg |-> [serial |-> 1]],
    [op |-> "GetFirstDeviceWithSerial", arg |-> [text |-> <<"s", "1">>]] }
  \cup { [op |-> "GetFirstDeviceFromArgument", arg |-> [name |-> q]] :
           q \in { <<"h", ":", "1">>, <<"S", "1">>, <<"K", "a">>, <<"0">>, <<"1">> } }

\* The names asked for where the legacy alias matters: the alias in three
\* spellings, parts of the two names, the other card's name, and no name.
LegacyQueries ==
  { <<"i", "o", "4", "k", "p", "l", "u", "s">>,
    <<"I", "O", "4", "K", "P", "L", "U", "S">>,
    <<"I", "o", "4", "k", "P", "l", "u", "s">>,
    <<"i", "o", "4", "k">>, <<"d", "n", "x", "i", "v">>, <<"K", "a">>, <<"z", "z">> }

LegacyCalls ==
  RoundTripCalls
    \cup { [op |-> "GetFirstDeviceWithName", arg |-> [name |-> q]] : q \in LegacyQueries }

\* The calls of a caller that passes one CNTV2Card to resolver after
\* resolver: each resolver with arguments that match a device and arguments
\* that match none, beside one call of every other operation.
ReuseCalls ==
  { [op |-> "ScanHardware", arg |-> NoArg],
    [op |-> "GetNumDevices", arg |-> NoArg],
    [op |-> "GetDeviceInfoList", arg |-> NoArg],
    [op |-> "GetDeviceInfo", arg |-> [index |-> 0, rescan |-> FALSE]],
    [op |-> "DeviceIDPresent", arg |-> [id |-> 1, rescan |-> FALSE]] }
  \cup { [op |-> "GetDeviceAtIndex", arg |-> [index |-> i]] : i \in {0, MaxSlots} }
  \cup { [op |-> "GetFirstDeviceWithID", arg |-> [id |-> d]] : d \in DeviceIDs }
  \cup { [op |-> "GetFirstDeviceWithName", arg |-> [name |-> q]] :
           q \in { <<"k">>, <<"x">>, <<"-">>, <<"h", ":", "1">>, <<"h", ":", "2">> } }
  \cup { [op |-> "GetDeviceWithSerial", arg |-> [serial |-> n]] : n \in SerialNumbers }
  \cup { [op |-> "GetFirstDeviceWithSerial", arg |-> [text |-> q]] :
           q \in { <<"s", "1">>, <<"x">> } }
  \cup { [op |-> "GetFirstDeviceFromArgument", arg |-> [name |-> q]] :
           q \in { <<>>, <<"?">>, <<"h", ":", "1">>, <<"S", "1">>, <<"x">> } }

\* The cards of the concurrent runs.
ConcurrentCards == { c \in Cards : c.id = 1 }

\* The cards there are to plug in.
CatalogCards ==
  CASE catalog = "all"        -> Cards
    [] catalog = "one family" -> FamilyCards
    [] catalog = "legacy"     -> LegacyCards
    [] OTHER                  -> ConcurrentCards

\* The calls thread t makes.
CallsOf(t) ==
  CASE menu[t] = "all"  -> Calls
    [] menu[t] = "some" -> ConcurrentCalls
    [] menu[t] = "few"  -> InterferingCalls
    [] menu[t] = "names" -> RoundTripCalls
    [] menu[t] = "legacy" -> LegacyCalls
    [] menu[t] = "reuse" -> ReuseCalls
    [] OTHER            -> {}

\* The outDevice a caller may pass in: closed, or left open by earlier use.
IncomingHandles ==
  {Closed} \cup
  { [open |-> TRUE, slot |-> n, card |-> c, remote |-> FALSE, host |-> NoHost] :
      n \in Slots, c \in Cards }

\* Mutant: outDevice is left as it was passed in.
Mut_HandleKept(h) == h

\* outDevice.Close()
CloseHandle(h) == Closed

\* The caller keeps one CNTV2Card and passes it to call after call.
KeepsHandle(t) == menu[t] = "reuse"

\* The outDevice thread t may pass to its next call.
HandlesPassed(t) == IF KeepsHandle(t) THEN {handle[t]} ELSE IncomingHandles

\* The arguments of call c; outDevice as it is passed in is one of them for a
\* caller that keeps its CNTV2Card.
ArgPassed(t, c, h) ==
  IF KeepsHandle(t) /\ c.op \in Resolvers THEN c.arg @@ [outDevice |-> h] ELSE c.arg

\* Whether the operation calls ScanHardware once it holds the lock.
Rescans(o, a) ==
  IF o \in {"GetDeviceInfo", "DeviceIDPresent"} THEN a.rescan
  ELSE o \in Resolvers

\* Mutant: every name query goes on to the lock and the rescan.
Mut_NeverLocator(c) == FALSE

\* GetFirstDeviceWithName: a query that is not alphanumeric never reaches the
\* lock; it is opened as a locator if it holds a ':'.
IsLocatorCall(c) ==
  c.op = "GetFirstDeviceWithName" /\ ~IsAlphaNumeric(c.arg.name)

LocatorHandle(name) ==
  IF Contains(name, <<":">>) THEN OpenLocator(name) ELSE Closed

\* Mutant: an empty argument goes on like any other.
Mut_EmptyGoesOn(c) == FALSE

\* GetFirstDeviceFromArgument: if (inArgument.empty()) return false
IsEmptyArgument(c) ==
  c.op = "GetFirstDeviceFromArgument" /\ c.arg.name = <<>>

\* Where a call goes first.
FirstPc(c) ==
  CASE c.op = "ScanHardware" -> "scan"
    [] IsLocatorCall(c)      -> "done"
    [] IsEmptyArgument(c)    -> "done"
    [] OTHER                 -> "lock"

BoolRet(ok, ndx, tried) == [kind |-> "bool", ok |-> ok, ndx |-> ndx, tried |-> tried]

Call(t) ==
  /\ pc[t] = "idle"
  /\ \E c \in CallsOf(t), h \in HandlesPassed(t) :
       /\ (c.op \notin Resolvers /\ ~KeepsHandle(t)) => (h = Closed)
       /\ op' = [op EXCEPT ![t] = c.op]
       /\ arg' = [arg EXCEPT ![t] = ArgPassed(t, c, h)]
       /\ pc' = [pc EXCEPT ![t] = FirstPc(c)]
       /\ handle' = [handle EXCEPT ![t] =
            IF IsLocatorCall(c) THEN LocatorHandle(c.arg.name)
            ELSE IF c.op \in Resolvers THEN CloseHandle(h) ELSE h]
       /\ ret' = [ret EXCEPT ![t] =
            IF IsLocatorCall(c)
              THEN BoolRet(LocatorHandle(c.arg.name).open, 0, NoSlot)
            ELSE IF IsEmptyArgument(c) THEN BoolRet(FALSE, 0, NoSlot)
            ELSE NoRet]
  /\ dirty' = [dirty EXCEPT ![t] = FALSE]
  /\ UNCHANGED <<hw, envVars, sDevInfoList, lockVars, scanVars, seen, scanned, pubVars>>

\* AJAAutoLock at the top of an operation.
Acquire(t) ==
  /\ pc[t] = "lock"
  /\ ReaderMayEnter(t)
  /\ lockOwner' = OwnerAfterLock(t)
  /\ lockDepth' = DepthAfterLock(t)
  /\ pc' = [pc EXCEPT ![t] = IF Rescans(op[t], arg[t]) THEN "scan" ELSE "read"]
  /\ UNCHANGED <<hw, envVars, sDevInfoList, op, arg, scanVars, handle, ret, seen,
                 scanned, dirty, pubVars>>

\* ScanHardware: the lock, then sDevInfoList.clear().
ScanBegin(t) ==
  /\ pc[t] = "scan"
  /\ ScanMayEnter(t)
  /\ lockOwner' = OwnerAfterLock(t)
  /\ lockDepth' = DepthAfterLock(t)
  /\ sDevInfoList' = ClearedList(sDevInfoList)
  /\ boardNum' = [boardNum EXCEPT ![t] = 0]
  /\ probed' = [probed EXCEPT ![t] = <<>>]
  /\ pc' = [pc EXCEPT ![t] = "probe"]
  /\ UNCHANGED <<hw, envVars, op, arg, nOpenTmp, handle, ret, seen, scanned, dirty,
                 pubVars>>

\* tmpDev.Close() at the end of the loop body: the handles still open.
TmpAfterClose(n) == n - 1

\* ScanHardware's loop body for a slot that opens.
ScanProbe(t) ==
  /\ pc[t] = "probe"
  /\ CanOpen(boardNum[t])
  /\ LET n    == boardNum[t]
         card == hw[n]
     IN  /\ sDevInfoList' =
               IF ScanKeeps(card.id)
                 THEN Append(sDevInfoList, MakeDeviceInfo(n, card))
                 ELSE sDevInfoList
         /\ probed' = [probed EXCEPT ![t] = Append(@, card)]
         /\ nOpenTmp' = [nOpenTmp EXCEPT ![t] = TmpAfterClose(@ + 1)]
         /\ boardNum' = [boardNum EXCEPT ![t] = UWord(n + 1)]
  /\ UNCHANGED <<hw, envVars, lockVars, pc, op, arg, handle, ret, seen, scanned,
                 dirty, pubVars>>

\* ScanHardware from the slot that fails to open (break) to its return: the
\* virtual-device part, then the lock given back.  An exception out of
\* GetSerialToVirtualDeviceMap unwinds through the caller, every AJAAutoLock of
\* the thread giving back its hold.
ScanEnd(t) ==
  /\ pc[t] = "probe"
  /\ ~CanOpen(boardNum[t])
  /\ LET list == IF ConfigThrows THEN sDevInfoList ELSE ListAfterVirtual(sDevInfoList)
     IN  /\ sDevInfoList' = list
         /\ published' = list
         /\ scanned' = [scanned EXCEPT ![t] = [did |-> TRUE, list |-> list]]
  /\ pubLog' = Append(probed[t], NoCard)
  /\ nScans' = "some"
  /\ probed' = [probed EXCEPT ![t] = <<>>]
  /\ boardNum' = [boardNum EXCEPT ![t] = 0]
  /\ IF ConfigThrows
       THEN /\ lockOwner' = NoThread
            /\ lockDepth' = 0
            /\ pc' = [pc EXCEPT ![t] = "done"]
            /\ ret' = [ret EXCEPT ![t] = [kind |-> "exception"]]
       ELSE /\ lockOwner' = OwnerAfterUnlock(t)
            /\ lockDepth' = DepthAfterUnlock(t)
            /\ pc' = [pc EXCEPT ![t] = IF op[t] = "ScanHardware" THEN "done" ELSE "read"]
            /\ ret' = [ret EXCEPT ![t] =
                 IF op[t] = "ScanHardware" THEN [kind |-> "void"] ELSE @]
  /\ UNCHANGED <<hw, envVars, op, arg, nOpenTmp, handle, seen, dirty>>

\* ------------------------------------------------- searching sDevInfoList

\* for (size_t ndx(0); ndx < size; ndx++) if (hit) return ...: the first ndx
\* (from 0) at or after ndx whose entry hits, or the size when none does.
RECURSIVE FirstHit(_, _)
FirstHit(hits, ndx) ==
  IF ndx >= Len(hits) THEN Len(hits)
  ELSE IF hits[ndx + 1] THEN ndx
  ELSE FirstHit(hits, ndx + 1)

\* sDevInfoList.at(ndx).deviceID == inDeviceID
IDHits(list, id) == [i \in DOMAIN list |-> list[i].deviceID = id]

\* sDevInfoList.at(ndx).deviceSerialNumber == inSerialNumber
SerialHits(list, serial) == [i \in DOMAIN list |-> list[i].deviceSerialNumber = serial]

\* Mutant: the device name is compared as it is spelled.
Mut_NameNotLowered(name) == name

\* aja::lower(deviceName): the name as GetFirstDeviceWithName compares it.
NameAsCompared(name) == Lower(name)

\* aja::lower(nameSubString): the query as GetFirstDeviceWithName compares it.
QueryAsCompared(query) == Lower(query)

\* deviceName.find(nameSubString) != string::npos
NameHits(list, sub) ==
  [i \in DOMAIN list |-> Contains(NameAsCompared(list[i].deviceIdentifier), sub)]

LegacyAlias == <<"i", "o", "4", "k", "p", "l", "u", "s">>
LegacyAliasName == <<"a", "v", "i", "d", " ", "d", "n", "x", "i", "v">>

\* Mutant: the second loop runs for every query the first loop found
\* nothing for.
Mut_AliasForEveryQuery(list, query) ==
  LET first == FirstHit(NameHits(list, QueryAsCompared(query)), 0)
  IN  IF first < Len(list) THEN first
      ELSE FirstHit(NameHits(list, LegacyAliasName), 0)

\* GetFirstDeviceWithName's two loops: the ndx it opens, or the size.
NameSearch(list, query) ==
  LET sub   == QueryAsCompared(query)
      first == FirstHit(NameHits(list, sub), 0)
  IN  IF first < Len(list) THEN first
      ELSE IF sub = LegacyAlias THEN FirstHit(NameHits(list, LegacyAliasName), 0)
      ELSE Len(list)

\* CNTV2Card dev(UWord(ndx+0)): the local slot GetFirstDeviceWithSerial reads
\* the serial text from for entry ndx.
SlotProbedFor(list, ndx) == UWord(ndx)

\* dev.GetSerialNumberString(serNumStr), aja::lower(serNumStr),
\* serNumStr.find(searchSerialStr) != string::npos
SerialStringHits(list, sub) ==
  [i \in DOMAIN list |->
     LET n == SlotProbedFor(list, i - 1)
     IN  HasSerialString(n) /\ Contains(Lower(LiveSerialString(n)), sub)]

\* outDevice.Open(UWord(ndx)): the local slot a resolver opens for entry ndx.
SlotOpenedFor(list, ndx) == UWord(ndx)

\* Mutant: the bounds check lets the size itself through.
Mut_IndexOffByOne(index, list) == index <= Len(list)

\* GetDeviceAtIndex: size_t(inDeviceIndexNumber) < sDevInfoList.size()
IndexInBounds(index, list) == index < Len(list)

\* Mutant: GetDeviceInfo returns true for any offset inside the list.
Mut_DeviceInfoUnchecked(list, index) ==
  IF index < Len(list)
    THEN [kind |-> "info", ok |-> TRUE, info |-> <<list[index + 1]>>]
    ELSE [kind |-> "info", ok |-> FALSE, info |-> <<>>]

\* GetDeviceInfo: what it returns for the list it reads.
DeviceInfoResult(list, index) ==
  IF index < Len(list)
    THEN [kind |-> "info", ok |-> list[index + 1].deviceIndex = index,
          info |-> <<list[index + 1]>>]
    ELSE [kind |-> "info", ok |-> FALSE, info |-> <<>>]

\* The end of an operation that holds the lock: its result, the lock given back.
Finish(t, r, h) ==
  /\ ret' = [ret EXCEPT ![t] = r]
  /\ handle' = [handle EXCEPT ![t] = h]
  /\ seen' = [seen EXCEPT ![t] = sDevInfoList]
  /\ lockOwner' = OwnerAfterUnlock(t)
  /\ lockDepth' = DepthAfterUnlock(t)
  /\ pc' = [pc EXCEPT ![t] = "done"]
  /\ UNCHANGED <<hw, envVars, sDevInfoList, op, arg, scanVars, scanned, dirty, pubVars>>

\* A resolver that found entry ndx (ndx < size) opens a slot for it;
\* otherwise it returns false and outDevice stays as it is.
Resolve(t, ndx) ==
  IF ndx < Len(sDevInfoList)
    THEN LET slot == SlotOpenedFor(sDevInfoList, ndx)
         IN  Finish(t, BoolRet(OpenAt(slot).open, ndx, slot), OpenAt(slot))
    ELSE Finish(t, BoolRet(FALSE, ndx, NoSlot), handle[t])

GetNumDevices(t) ==
  /\ pc[t] = "read" /\ op[t] = "GetNumDevices"
  /\ Finish(t, [kind |-> "size", n |-> Len(sDevInfoList)], handle[t])

GetDeviceInfoList(t) ==
  /\ pc[t] = "read" /\ op[t] = "GetDeviceInfoList"
  /\ Finish(t, [kind |-> "list", list |-> sDevInfoList], handle[t])

DeviceIDPresent(t) ==
  /\ pc[t] = "read" /\ op[t] = "DeviceIDPresent"
  /\ LET ndx == FirstHit(IDHits(sDevInfoList, arg[t].id), 0)
     IN  Finish(t, [kind |-> "present", ok |-> ndx < Len(sDevInfoList)], handle[t])

GetDeviceInfo(t) ==
  /\ pc[t] = "read" /\ op[t] = "GetDeviceInfo"
  /\ Finish(t, DeviceInfoResult(sDevInfoList, arg[t].index), handle[t])

GetDeviceAtIndex(t) ==
  /\ pc[t] = "read" /\ op[t] = "GetDeviceAtIndex"
  /\ LET n == arg[t].index
     IN  IF IndexInBounds(n, sDevInfoList)
           THEN Finish(t, BoolRet(OpenAt(UWord(n)).open, n, UWord(n)), OpenAt(UWord(n)))
           ELSE Finish(t, BoolRet(FALSE, n, NoSlot), handle[t])

GetFirstDeviceWithID(t) ==
  /\ pc[t] = "read" /\ op[t] = "GetFirstDeviceWithID"
  /\ Resolve(t, FirstHit(IDHits(sDevInfoList, arg[t].id), 0))

GetFirstDeviceWithName(t) ==
  /\ pc[t] = "read" /\ op[t] = "GetFirstDeviceWithName"
  /\ Resolve(t, NameSearch(sDevInfoList, arg[t].name))

GetFirstDeviceWithSerial(t) ==
  /\ pc[t] = "read" /\ op[t] = "GetFirstDeviceWithSerial"
  /\ Resolve(t, FirstHit(SerialStringHits(sDevInfoList, Lower(arg[t].text)), 0))

\* upperArg == "LIST" || upperArg == "?"
IsListCommand(name) == Upper(name) \in { <<"L", "I", "S", "T">>, <<"?">> }

\* Mutant: the listing command reports whether it listed any device.
Mut_ListReportsDevices(list) == list # <<>>

\* The listing command prints the list and ends in "return false".
ListCommandResult(list) == FALSE

\* std::to_string(iter->deviceIndex) == inArgument || iter->virtualDeviceName
\* == inArgument || iter->virtualDeviceID == inArgument, for a virtual record
VirtualHits(list, name) ==
  [i \in DOMAIN list |->
     /\ list[i].isVirtualDevice
     /\ \/ DecStr(list[i].deviceIndex) = name
        \/ list[i].virtualDeviceName = name
        \/ list[i].virtualDeviceID = name]

\* "ntv2virtualdev://localhost/?CP2ConfigPath=...&DeviceSN=...&vdid=...&verbose"
VirtualDeviceSpec(info) ==
  <<"v", "d", ":">> \o SerialNum64ToString(info.deviceSerialNumber)
    \o <<":">> \o info.virtualDeviceID

\* The string GetFirstDeviceFromArgument hands to outDevice.Open: the
\* argument itself, or the locator of the virtual device the argument names.
ArgumentOpened(list, name) ==
  LET v == FirstHit(VirtualHits(list, name), 0)
  IN  IF virtualSupport /\ v < Len(list)
        THEN VirtualDeviceSpec(list[v + 1])
        ELSE name

GetFirstDeviceFromArgument(t) ==
  /\ pc[t] = "read" /\ op[t] = "GetFirstDeviceFromArgument"
  /\ IF IsListCommand(arg[t].name)
       THEN Finish(t, BoolRet(ListCommandResult(sDevInfoList), 0, NoSlot), handle[t])
       ELSE LET h == OpenLocator(ArgumentOpened(sDevInfoList, arg[t].name))
            IN  Finish(t, BoolRet(h.open, 0, IF h.open THEN h.slot ELSE NoSlot), h)

GetDeviceWithSerial(t) ==
  /\ pc[t] = "read" /\ op[t] = "GetDeviceWithSerial"
  /\ Resolve(t, FirstHit(SerialHits(sDevInfoList, arg[t].serial), 0))

\* The operation is over: the thread is free to make its next call.
Return(t) ==
  /\ pc[t] = "done"
  /\ pc' = [pc EXCEPT ![t] = "idle"]
  /\ op' = [op EXCEPT ![t] = "none"]
  /\ arg' = [arg EXCEPT ![t] = NoArg]
  /\ ret' = [ret EXCEPT ![t] = NoRet]
  /\ handle' = [handle EXCEPT ![t] = IF KeepsHandle(t) THEN handle[t] ELSE Closed]
  /\ seen' = [seen EXCEPT ![t] = <<>>]
  /\ scanned' = [scanned EXCEPT ![t] = NotScanned]
  /\ dirty' = [dirty EXCEPT ![t] = FALSE]
  /\ UNCHANGED <<hw, envVars, sDevInfoList, lockVars, scanVars, pubVars>>

\* A card is plugged into, pulled from or swapped in a slot.
HwChange ==
  /\ \E n \in Slots, c \in CatalogCards \cup {NoCard} :
       /\ c # hw[n]
       /\ hw' = [hw EXCEPT ![n] = c]
  /\ dirty' = [t \in Threads |-> dirty[t] \/ pc[t] \notin {"idle", "done"}]
  /\ UNCHANGED <<envVars, sDevInfoList, lockVars, pc, op, arg, scanVars, handle, ret,
                 seen, scanned, pubVars>>

\* ----------------------------------------------------------- GetDeviceRefName

\* inDevice.GetSerialNumberString(str): the serial text of the device the
\* handle is open on; none when the device has no legal serial text.
HandleSerialString(h) == SerialNum64ToString(h.card.serial)

\* Mutant: the serial number is tried before the host name.
Mut_RefNameSerialFirst(h) ==
  IF ~h.open THEN <<>>
  ELSE IF HandleSerialString(h) # <<>> THEN HandleSerialString(h)
  ELSE IF h.host # <<>> /\ h.remote THEN h.host
  ELSE IF NTV2DeviceIDToString(h.card.id) \notin { <<>>, <<"?", "?", "?">> }
    THEN NTV2DeviceIDToString(h.card.id)
  ELSE DecStr(h.slot)

\* CNTV2DeviceScanner::GetDeviceRefName
GetDeviceRefName(h) ==
  IF ~h.open THEN <<>>
  ELSE IF h.host # <<>> /\ h.remote THEN h.host
  ELSE IF HandleSerialString(h) # <<>> THEN HandleSerialString(h)
  ELSE IF NTV2DeviceIDToString(h.card.id) # <<>>
            /\ NTV2DeviceIDToString(h.card.id) # <<"?", "?", "?">>
    THEN NTV2DeviceIDToString(h.card.id)
  ELSE DecStr(h.slot)

\* The devices GetDeviceRefName is asked about: every card, one with
\* family id 0, local or remote, with and without a host name.
RefCards == Cards \cup FamilyCards \cup { [id |-> 0, serial |-> 0, present |-> TRUE] }

RefHandles ==
  {Closed} \cup
  { [open |-> TRUE, slot |-> n, card |-> c, remote |-> r, host |-> x] :
      n \in Slots, c \in RefCards, r \in BOOLEAN, x \in {NoHost} \cup ReachableLocators }

\* A call of GetDeviceRefName: it reads the handle and nothing else.
RefNameCall(t) ==
  /\ pc[t] = "calc" /\ op[t] = "GetDeviceRefName"
  /\ ret' = [ret EXCEPT ![t] = [kind |-> "name", name |-> GetDeviceRefName(handle[t])]]
  /\ pc' = [pc EXCEPT ![t] = "done"]
  /\ UNCHANGED <<hw, envVars, sDevInfoList, lockVars, op, arg, scanVars, handle, seen,
                 scanned, dirty, pubVars>>

\* ------------------------------------------------------ identifier classifiers

\* CNTV2DeviceScanner::IsHexDigit: sHexDigits
HexDigitChars ==
  <<"0", "1", "2", "3", "4", "5", "6", "7", "8", "9", "a", "b", "c", "d", "e", "f">>

IsHexDigit(c) == LowerChar(c) \in Range(HexDigitChars)

\* The digits of a uint64_t written in base 16.
HexSerialDigits == 16

\* A uint64_t is the sequence of its HexSerialDigits base-16 digits, the most
\* significant first; 0ULL is sixteen zeros.
Zero64 == [i \in 1 .. HexSerialDigits |-> 0]

\* iss >> hex >> u64 on a string of HexSerialDigits hex digits
ParseHex64(hexStr) ==
  [i \in 1 .. HexSerialDigits |->
     CHOOSE d \in 0 .. 15 : HexDigitChars[d + 1] = LowerChar(hexStr[i])]

\* Mutant: the zeros are appended.
RECURSIVE Mut_PadRight(_)
Mut_PadRight(hexStr) ==
  IF Len(hexStr) = HexSerialDigits THEN hexStr ELSE Mut_PadRight(hexStr \o <<"0">>)

\* while (hexStr.length() != 16)  hexStr = '0' + hexStr;
RECURSIVE PadHex(_)
PadHex(hexStr) ==
  IF Len(hexStr) = HexSerialDigits THEN hexStr ELSE PadHex(<<"0">> \o hexStr)

\* hexStr.erase(0, 2) when the lower-cased string starts with "0x"
WithoutHexPrefix(hexStr) ==
  IF hexStr[1] = "0" /\ hexStr[2] = "x" THEN SubSeq(hexStr, 3, Len(hexStr)) ELSE hexStr

\* CNTV2DeviceScanner::IsLegalHexSerialNumber
IsLegalHexSerialNumber(inStr) ==
  IF Len(inStr) < 3 THEN Zero64
  ELSE LET hexStr == WithoutHexPrefix(Lower(inStr))
       IN  IF Len(hexStr) > HexSerialDigits THEN Zero64
           ELSE IF \E ndx \in DOMAIN hexStr : ~IsHexDigit(hexStr[ndx]) THEN Zero64
           ELSE ParseHex64(PadHex(hexStr))

\* Mutant: only the eight-character form is legal.
Mut_SerialOfEightOnly(inStr) == Len(inStr) = 8 /\ IsAlphaNumeric(inStr)

\* CNTV2DeviceScanner::IsLegalSerialNumber
IsLegalSerialNumber(inStr) ==
  IF Len(inStr) # 8 /\ Len(inStr) # 9 THEN FALSE ELSE IsAlphaNumeric(inStr)

\* The strings handed to the classifiers: an optional prefix, then a first
\* character and a run of one other character, in either order, of every
\* length up to MaxTextLen.
TextPrefixes == { <<>>, <<"0", "x">>, <<"0", "X">> }
HeadChars == { "0", "1", "a", "F", "g", "-" }
FillChars == { "0", "f", "B", "x", " " }

Run(c, n) == [i \in 1 .. n |-> c]

TextBodies ==
  {<<>>} \cup UNION { { <<h>> \o Run(f, n - 1), Run(f, n - 1) \o <<h>> } :
                        h \in HeadChars, f \in FillChars, n \in 1 .. MaxTextLen }

ClassifierInputs == { p \o b : p \in TextPrefixes, b \in TextBodies }

\* A call of IsLegalHexSerialNumber or IsLegalSerialNumber: it reads its
\* argument and nothing else.
HexSerialCall(t) ==
  /\ pc[t] = "calc" /\ op[t] = "IsLegalHexSerialNumber"
  /\ ret' = [ret EXCEPT ![t] = [kind |-> "u64", value |-> IsLegalHexSerialNumber(arg[t].text)]]
  /\ pc' = [pc EXCEPT ![t] = "done"]
  /\ UNCHANGED <<hw, envVars, sDevInfoList, lockVars, op, arg, scanVars, handle, seen,
                 scanned, dirty, pubVars>>

LegalSerialCall(t) ==
  /\ pc[t] = "calc" /\ op[t] = "IsLegalSerialNumber"
  /\ ret' = [ret EXCEPT ![t] = [kind |-> "legal", ok |-> IsLegalSerialNumber(arg[t].text)]]
  /\ pc' = [pc EXCEPT ![t] = "done"]
  /\ UNCHANGED <<hw, envVars, sDevInfoList, lockVars, op, arg, scanVars, handle, seen,
                 scanned, dirty, pubVars>>

\* ----------------------------------------------------- CompareDeviceInfoLists

\* Mutant: the slot location is left out of the comparison.
Mut_EqualWithoutPciSlot(first, second) ==
  /\ first.deviceID = second.deviceID
  /\ first.deviceIndex = second.deviceIndex
  /\ first.deviceSerialNumber = second.deviceSerialNumber

\* Mutant: the display name is compared as well.
Mut_EqualWithIdentifier(first, second) ==
  /\ first.deviceID = second.deviceID
  /\ first.deviceIndex = second.deviceIndex
  /\ first.deviceSerialNumber = second.deviceSerialNumber
  /\ first.pciSlot = second.pciSlot
  /\ first.deviceIdentifier = second.deviceIdentifier

\* NTV2DeviceInfo::operator ==: no difference in deviceID, deviceIndex,
\* deviceSerialNumber and pciSlot.
InfoEqual(first, second) ==
  /\ first.deviceID = second.deviceID
  /\ first.deviceIndex = second.deviceIndex
  /\ first.deviceSerialNumber = second.deviceSerialNumber
  /\ first.pciSlot = second.pciSlot

\* if (newInfo.deviceID && newInfo.deviceID != NTV2DeviceID(0xFFFFFFFF))
IsAddable(info) == info.deviceID # 0 /\ info.deviceID # DEVICE_ID_NOTFOUND

\* Mutant: the output lists keep what the caller left in them.
Mut_OutputKept(list) == list

\* outBoardsAdded.clear(), outBoardsRemoved.clear()
ClearedOutput(list) == <<>>

\* The while (true) loop: oldIter at position i, newIter at position j, the
\* two output lists so far in out.
RECURSIVE CompareLoop(_, _, _, _, _)
CompareLoop(old, new, i, j, out) ==
  IF i > Len(old) /\ j > Len(new) THEN out
  ELSE IF i <= Len(old) /\ j <= Len(new)
    THEN CompareLoop(old, new, i + 1, j + 1,
           IF ~InfoEqual(old[i], new[j])
             THEN [ removed |-> Append(out.removed, old[i]),
                    added   |-> IF IsAddable(new[j])
                                  THEN Append(out.added, new[j]) ELSE out.added ]
             ELSE out)
  ELSE IF i <= Len(old)
    THEN CompareLoop(old, new, i + 1, j, [out EXCEPT !.removed = Append(@, old[i])])
  ELSE CompareLoop(old, new, i, j + 1,
         IF IsAddable(new[j]) THEN [out EXCEPT !.added = Append(@, new[j])] ELSE out)

\* CNTV2DeviceScanner::CompareDeviceInfoLists: the two output lists and the
\* bool it returns.
CompareDeviceInfoLists(old, new, added, removed) ==
  LET out == CompareLoop(old, new, 1, 1,
               [added |-> ClearedOutput(added), removed |-> ClearedOutput(removed)])
  IN  [ kind    |-> "diff",
        added   |-> out.added,
        removed |-> out.removed,
        changed |-> out.added # <<>> \/ out.removed # <<>> ]

\* The records the lists handed to CompareDeviceInfoLists are made of.
\* numVidInputs stands for the capability fields ScanHardware fills in.
DiffInfo(id, index, serial, slot, name, inputs) ==
  [ deviceID |-> id, deviceIndex |-> index, deviceSerialNumber |-> serial,
    pciSlot |-> slot, deviceIdentifier |-> name, numVidInputs |-> inputs ]

DiffInfos ==
  { DiffInfo(1, 0, 1, 0, DeviceIdentifierOf(1, 0), 1),
    DiffInfo(1, 0, 1, 0, <<"x">>, 1),
    DiffInfo(1, 0, 1, 0, DeviceIdentifierOf(1, 0), 2),
    DiffInfo(1, 1, 2, 0, DeviceIdentifierOf(1, 1), 1),
    DiffInfo(1, 1, 2, 1, DeviceIdentifierOf(1, 1), 1),
    DiffInfo(1, 0, 0, 0, DeviceIdentifierOf(1, 0), 1),
    DiffInfo(DEVICE_ID_NOTFOUND, 0, 0, 0, DeviceIdentifierOf(DEVICE_ID_NOTFOUND, 0), 1),
    DiffInfo(0, 1, 1, 0, <<>>, 1) }

\* The lists of at most MaxListLen such records.
DiffLists == UNION { [1 .. n -> DiffInfos] : n \in 0 .. MaxListLen }

\* What the caller's output lists hold when the call is made: an entry of
\* its last comparison, nothing as long as it had no old list.
StaleOutput(old) == IF old = <<>> THEN <<>> ELSE <<DiffInfo(1, 0, 1, 0, <<"x">>, 1)>>

\* A call of CompareDeviceInfoLists: it reads its arguments and nothing else.
CompareCall(t) ==
  /\ pc[t] = "calc" /\ op[t] = "CompareDeviceInfoLists"
  /\ ret' = [ret EXCEPT ![t] =
       CompareDeviceInfoLists(arg[t].old, arg[t].new, arg[t].added, arg[t].removed)]
  /\ pc' = [pc EXCEPT ![t] = "done"]
  /\ UNCHANGED <<hw, envVars, sDevInfoList, lockVars, op, arg, scanVars, handle, seen,
                 scanned, dirty, pubVars>>

\* ------------------------------------------------------------ specification

InitCommon ==
  /\ hw \in [Slots -> CatalogCards \cup {NoCard}]
  /\ sDevInfoList = <<>>
  /\ lockOwner = NoThread
  /\ lockDepth = 0
  /\ pc = [t \in Threads |-> "idle"]
  /\ op = [t \in Threads |-> "none"]
  /\ arg = [t \in Threads |-> NoArg]
  /\ boardNum = [t \in Threads |-> 0]
  /\ probed = [t \in Threads |-> <<>>]
  /\ nOpenTmp = [t \in Threads |-> 0]
  /\ handle = [t \in Threads |-> Closed]
  /\ ret = [t \in Threads |-> NoRet]
  /\ seen = [t \in Threads |-> <<>>]
  /\ scanned = [t \in Threads |-> NotScanned]
  /\ dirty = [t \in Threads |-> FALSE]
  /\ published = <<>>
  /\ pubLog = <<>>
  /\ nScans = "none"

\* One caller, every call, the build without VIRTUAL_DEVICES_SUPPORT.
Init ==
  /\ catalog = "all"
  /\ menu = [t \in Threads |-> IF t = "t1" THEN "all" ELSE "none"]
  /\ virtualSupport = FALSE
  /\ cfgFile = "absent"
  /\ InitCommon

\* One caller, every call, the build with VIRTUAL_DEVICES_SUPPORT and the
\* mapping file in each of its conditions.
InitVD ==
  /\ catalog = "all"
  /\ menu = [t \in Threads |-> IF t = "t1" THEN "all" ELSE "none"]
  /\ virtualSupport = TRUE
  /\ cfgFile \in {"valid", "absent", "malformed"}
  /\ InitCommon

\* Two threads calling, the build without VIRTUAL_DEVICES_SUPPORT.
InitMT ==
  /\ catalog = "family 1"
  /\ menu = [t \in Threads |-> IF t = "t1" THEN "some" ELSE "few"]
  /\ virtualSupport = FALSE
  /\ cfgFile = "absent"
  /\ InitCommon

Step(t) ==
  \/ Call(t)
  \/ Acquire(t)
  \/ ScanBegin(t)
  \/ ScanProbe(t)
  \/ ScanEnd(t)
  \/ GetNumDevices(t)
  \/ GetDeviceInfoList(t)
  \/ DeviceIDPresent(t)
  \/ GetDeviceInfo(t)
  \/ GetDeviceAtIndex(t)
  \/ GetFirstDeviceWithID(t)
  \/ GetFirstDeviceWithName(t)
  \/ GetFirstDeviceWithSerial(t)
  \/ GetDeviceWithSerial(t)
  \/ GetFirstDeviceFromArgument(t)
  \/ Return(t)

Next == HwChange \/ \E t \in Threads : Step(t)

Spec == Init /\ [][Next]_vars

SpecVD == InitVD /\ [][Next]_vars

SpecMT == InitMT /\ [][Next]_vars

\* The steps of thread t that wait for sDevInfoListLock, and its other steps
\* once it has made a call.
LockSteps(t) == Acquire(t) \/ ScanBegin(t)

ThreadRuns(t) ==
  \/ ScanProbe(t)
  \/ ScanEnd(t)
  \/ GetNumDevices(t)
  \/ GetDeviceInfoList(t)
  \/ DeviceIDPresent(t)
  \/ GetDeviceInfo(t)
  \/ GetDeviceAtIndex(t)
  \/ GetFirstDeviceWithID(t)
  \/ GetFirstDeviceWithName(t)
  \/ GetFirstDeviceWithSerial(t)
  \/ GetDeviceWithSerial(t)
  \/ GetFirstDeviceFromArgument(t)
  \/ Return(t)

\* Every thread keeps running, every open and probe returns, and a thread
\* that waits for the lock gets it once it is free often enough.
Fairness ==
  \A t \in Threads : WF_vars(ThreadRuns(t)) /\ SF_vars(LockSteps(t))

\* Two threads calling, either build, the mapping file valid or not parsing.
InitLive ==
  /\ catalog = "family 1"
  /\ menu = [t \in Threads |-> IF t = "t1" THEN "some" ELSE "few"]
  /\ \/ virtualSupport = FALSE /\ cfgFile = "absent"
     \/ virtualSupport = TRUE /\ cfgFile \in {"valid", "malformed"}
  /\ InitCommon

\* ... scheduled fairly.
SpecLive == InitLive /\ [][Next]_vars /\ Fairness

\* One caller handing reference names back, the cards of one family.
InitRT ==
  /\ catalog = "one family"
  /\ menu = [t \in Threads |-> IF t = "t1" THEN "names" ELSE "none"]
  /\ virtualSupport = FALSE
  /\ cfgFile = "absent"
  /\ InitCommon

SpecRT == InitRT /\ [][Next]_vars

\* One caller asking for names, among them the legacy alias.
InitLegacy ==
  /\ catalog = "legacy"
  /\ menu = [t \in Threads |-> IF t = "t1" THEN "legacy" ELSE "none"]
  /\ virtualSupport = FALSE
  /\ cfgFile = "absent"
  /\ InitCommon

SpecLegacy == InitLegacy /\ [][Next]_vars

\* One caller passing one CNTV2Card to call after call.
InitReuse ==
  /\ catalog = "family 1"
  /\ menu = [t \in Threads |-> IF t = "t1" THEN "reuse" ELSE "none"]
  /\ virtualSupport = FALSE
  /\ cfgFile = "absent"
  /\ InitCommon

SpecReuse == InitReuse /\ [][Next]_vars

\* Either build.
SpecAll == (Init \/ InitVD) /\ [][Next]_vars

\* The operations that touch neither the list nor the lock, each on every one
\* of its inputs: one thread about to make one such call, no hardware.
RefNameCalls ==
  { [op |-> "GetDeviceRefName", arg |-> NoArg, handle |-> h] : h \in RefHandles }

ClassifierCalls ==
  { [op |-> o, arg |-> [text |-> s], handle |-> Closed] :
      o \in { "IsLegalHexSerialNumber", "IsLegalSerialNumber" }, s \in ClassifierInputs }

CompareCalls ==
  { [op |-> "CompareDeviceInfoLists",
     arg |-> [old |-> o, new |-> n, added |-> StaleOutput(o), removed |-> StaleOutput(o)],
     handle |-> Closed] :
       o \in DiffLists, n \in DiffLists }

\* Thread t1 is about to make call c.
CalcCall(c) ==
  /\ op = [t \in Threads |-> IF t = "t1" THEN c.op ELSE "none"]
  /\ arg = [t \in Threads |-> IF t = "t1" THEN c.arg ELSE NoArg]
  /\ handle = [t \in Threads |-> IF t = "t1" THEN c.handle ELSE Closed]

InitCalc ==
  /\ catalog = "family 1"
  /\ menu = [t \in Threads |-> "none"]
  /\ virtualSupport = FALSE
  /\ cfgFile = "absent"
  /\ hw = [n \in Slots |-> NoCard]
  /\ sDevInfoList = <<>>
  /\ lockOwner = NoThread
  /\ lockDepth = 0
  /\ \/ \E c \in RefNameCalls : CalcCall(c)
     \/ \E c \in CompareCalls : CalcCall(c)
     \/ \E c \in ClassifierCalls : CalcCall(c)
  /\ pc = [t \in Threads |-> IF t = "t1" THEN "calc" ELSE "idle"]
  /\ boardNum = [t \in Threads |-> 0]
  /\ probed = [t \in Threads |-> <<>>]
  /\ nOpenTmp = [t \in Threads |-> 0]
  /\ ret = [t \in Threads |-> NoRet]
  /\ seen = [t \in Threads |-> <<>>]
  /\ scanned = [t \in Threads |-> NotScanned]
  /\ dirty = [t \in Threads |-> FALSE]
  /\ published = <<>>
  /\ pubLog = <<>>
  /\ nScans = "none"

NextCalc ==
  \E t \in Threads :
    RefNameCall(t) \/ CompareCall(t) \/ HexSerialCall(t) \/ LegalSerialCall(t)

SpecCalc == InitCalc /\ [][NextCalc]_vars

\* ------------------------------------------------------------------ claims

\* A ScanHardware of thread u is between clearing the list and returning.
MidScan(u) == pc[u] = "probe"

NoScanRunning == \A u \in Threads : ~MidScan(u)

\* C1: no operation reads the shared list while another thread's
\* ScanHardware is between clearing it and finishing: a thread that is at the
\* statement reading sDevInfoList finds no other thread in a scan, and the
\* list it is about to read is the complete list of the last finished scan.
C1_ReadersSeeCompleteList ==
  \A t \in Threads :
    pc[t] = "read" =>
      /\ \A u \in Threads \ {t} : ~MidScan(u)
      /\ sDevInfoList = published

\* C1 witness: a scan has cleared the list and rebuilt only part of what the
\* last finished scan left, while another thread waits to read.
C1_Witness ==
  \E t, u \in Threads :
    /\ MidScan(u) /\ pc[t] = "lock"
    /\ Len(published) = 2 /\ Len(sDevInfoList) < 2

\* The slots a finished scan opened (all but the last one it probed), from 0.
OpenedSlots(log) == 0 .. (Len(log) - 2)

\* C2: when ScanHardware has returned (no virtual devices), with k the lowest
\* slot that failed to open, every slot below k opened and k ended the scan;
\* the list holds, in increasing slot order, exactly one snapshot per slot
\* below k whose family id is not DEVICE_ID_NOTFOUND, with its index equal to
\* the slot and the serial number read from it; every tmpDev is closed.
C2_ScanResult ==
  nScans = "some" =>
    LET k    == Len(pubLog) - 1
        kept == { n \in 0 .. (k - 1) : pubLog[n + 1].id # DEVICE_ID_NOTFOUND }
    IN  /\ Len(pubLog) >= 1
        /\ ~pubLog[k + 1].present
        /\ \A n \in 0 .. (k - 1) : pubLog[n + 1].present
        /\ Len(published) = Cardinality(kept)
        /\ \A j \in DOMAIN published :
             /\ published[j].deviceIndex \in kept
             /\ published[j].deviceSerialNumber = pubLog[published[j].deviceIndex + 1].serial
             /\ published[j].deviceID = pubLog[published[j].deviceIndex + 1].id
        /\ \A i, j \in DOMAIN published :
             i < j => published[i].deviceIndex < published[j].deviceIndex
        /\ NoScanRunning => (sDevInfoList = published /\ \A t \in Threads : nOpenTmp[t] = 0)

\* C2 witness: a scan has returned that skipped a "not found" card in slot 0
\* and kept the card in slot 1.
C2_Witness ==
  /\ nScans = "some" /\ NoScanRunning
  /\ Len(pubLog) = 3
  /\ pubLog[1].id = DEVICE_ID_NOTFOUND
  /\ Len(sDevInfoList) = 1
  /\ sDevInfoList[1].deviceIndex = 1

\* C3: the list is empty until the first scan; afterwards, whenever no scan
\* is running, every snapshot in it describes a slot the most recent finished
\* scan opened, as that scan read it, and no snapshot occurs twice.
C3_ListIsLatestScan ==
  /\ (nScans = "none" /\ NoScanRunning) => sDevInfoList = <<>>
  /\ (nScans = "some" /\ NoScanRunning) =>
       /\ \A j \in DOMAIN sDevInfoList :
            LET s == sDevInfoList[j]
            IN  /\ s.deviceIndex \in OpenedSlots(pubLog)
                /\ s.deviceID = pubLog[s.deviceIndex + 1].id
                /\ s.deviceSerialNumber = pubLog[s.deviceIndex + 1].serial
       /\ \A i, j \in DOMAIN sDevInfoList : i # j => sDevInfoList[i] # sDevInfoList[j]

\* C3 witness: a thread holds a copy of a two-device list it read earlier,
\* and a later scan, finished since, has left the list with fewer devices.
C3_Witness ==
  \E t \in Threads :
    /\ pc[t] = "done" /\ op[t] = "GetDeviceInfoList"
    /\ Len(ret[t].list) = 2
    /\ NoScanRunning /\ nScans = "some"
    /\ Len(sDevInfoList) < 2

\* C4: in every list ScanHardware has produced, no two snapshots have the
\* same index field.
C4_IndexUnique ==
  nScans = "some" =>
    \A i, j \in DOMAIN published :
      i # j => published[i].deviceIndex # published[j].deviceIndex

\* C4 witness: a scan has produced a list of two snapshots.
C4_Witness == nScans = "some" /\ Len(published) = 2

\* C5: with virtual-device support configured and the mapping read, the list
\* ScanHardware leaves holds the local snapshots followed by one snapshot per
\* virtual device mapped to each local snapshot's serial number, flagged
\* isVirtualDevice, with index fields 100, 101, ... in order of appending.
C5_VirtualAppended ==
  (virtualSupport /\ cfgFile = "valid" /\ nScans = "some") =>
    LET locals   == SelectSeq(published, LAMBDA s : ~s.isVirtualDevice)
        virtuals == SelectSeq(published, LAMBDA s : s.isVirtualDevice)
    IN  /\ published = locals \o virtuals
        /\ virtuals = VirtualInfos(locals, VdMapFile, VirtualIndexBase)

Finished(t, o) == pc[t] = "done" /\ op[t] = o

\* C6: GetDeviceInfo(i) returns false whenever the list it read holds no
\* snapshot whose index field is i, and a snapshot it hands back with true is
\* one of the list with index field i.
C6_GetDeviceInfoRejects ==
  \A t \in Threads :
    (Finished(t, "GetDeviceInfo") /\ ret[t].kind = "info") =>
      LET i == arg[t].index
      IN  /\ (\A j \in DOMAIN seen[t] : seen[t][j].deviceIndex # i) => ~ret[t].ok
          /\ ret[t].ok =>
               /\ Len(ret[t].info) = 1
               /\ ret[t].info[1].deviceIndex = i
               /\ \E j \in DOMAIN seen[t] : seen[t][j] = ret[t].info[1]

\* C6 witness: GetDeviceInfo(0) has returned false on a non-empty list whose
\* first snapshot has another index (slot 0 reported "not found").
C6_Witness ==
  \E t \in Threads :
    /\ Finished(t, "GetDeviceInfo") /\ ret[t].kind = "info"
    /\ arg[t].index = 0
    /\ Len(seen[t]) = 1 /\ seen[t][1].deviceIndex = 1
    /\ ~ret[t].ok

\* The operation of t searched the list its own rescan left.
SearchedOwnRescan(t) == scanned[t].did /\ seen[t] = scanned[t].list

\* C7: GetDeviceAtIndex(n) rescans first; when n is not below the size of the
\* rescanned list it returns false and opens nothing, and otherwise it tries
\* local slot n and returns what that open returned.
C7_GetDeviceAtIndex ==
  \A t \in Threads :
    (Finished(t, "GetDeviceAtIndex") /\ ret[t].kind = "bool") =>
      LET n == arg[t].index
      IN  /\ SearchedOwnRescan(t)
          /\ n >= Len(seen[t]) =>
               (~ret[t].ok /\ ret[t].tried = NoSlot /\ ~handle[t].open)
          /\ n < Len(seen[t]) =>
               /\ ret[t].tried = n
               /\ ret[t].ok = handle[t].open
               /\ handle[t].open => (handle[t].slot = n /\ handle[t].card.present)

\* C7 witness: GetDeviceAtIndex(1) has opened slot 1.
C7_Witness ==
  \E t \in Threads :
    /\ Finished(t, "GetDeviceAtIndex") /\ ret[t].kind = "bool"
    /\ arg[t].index = 1 /\ ret[t].ok /\ handle[t].slot = 1

\* C8: GetFirstDeviceWithID(id) rescans and returns false iff no snapshot of
\* the rescanned list has family id id; when it returns true and the hardware
\* did not change during the call, outDevice is open on the device the first
\* such snapshot describes, so the opened device's family id is id.
C8_FirstDeviceWithID ==
  \A t \in Threads :
    (Finished(t, "GetFirstDeviceWithID") /\ ret[t].kind = "bool" /\ ~dirty[t]) =>
      LET L == seen[t]
          M == { j \in DOMAIN L : L[j].deviceID = arg[t].id }
      IN  /\ SearchedOwnRescan(t)
          /\ ~ret[t].ok <=> M = {}
          /\ ret[t].ok =>
               /\ handle[t].open
               /\ handle[t].slot = L[Least(M)].deviceIndex
               /\ handle[t].card.id = arg[t].id

\* C9: GetDeviceWithSerial(s) rescans and returns false iff no snapshot of
\* the rescanned list has serial number s; when it returns true and the
\* hardware did not change during the call, the opened device's serial number
\* is s.
C9_DeviceWithSerial ==
  \A t \in Threads :
    (Finished(t, "GetDeviceWithSerial") /\ ret[t].kind = "bool" /\ ~dirty[t]) =>
      LET L == seen[t]
          M == { j \in DOMAIN L : L[j].deviceSerialNumber = arg[t].serial }
      IN  /\ SearchedOwnRescan(t)
          /\ ~ret[t].ok <=> M = {}
          /\ ret[t].ok =>
               /\ handle[t].open
               /\ handle[t].card.serial = arg[t].serial

\* hay contains needle, letter case disregarded.
ContainsAnyCase(hay, needle) == Contains(Upper(hay), Upper(needle))

\* Every spelling of a string in upper and lower case letters.
CaseVariants(str) ==
  { v \in [DOMAIN str -> Range(UpperChars) \cup Range(LowerChars) \cup Range(str)] :
      \A i \in DOMAIN str : v[i] \in {LowerChar(str[i]), UpperChar(str[i])} }

\* A list with every display name respelled in upper case, and in lower case.
UpperNames(list) ==
  [j \in DOMAIN list |-> [list[j] EXCEPT !.deviceIdentifier = Upper(@)]]

LowerNames(list) ==
  [j \in DOMAIN list |-> [list[j] EXCEPT !.deviceIdentifier = Lower(@)]]

\* C10: for an alphanumeric query GetFirstDeviceWithName rescans and selects
\* the first snapshot in list order whose display name contains the query,
\* letter case disregarded; respelling the query or the display names in
\* another letter case selects the same entry; and it returns false, opening
\* nothing, when no display name contains the query and the query is not the
\* legacy alias.
C10_NameSearch ==
  \A t \in Threads :
    ( /\ Finished(t, "GetFirstDeviceWithName") /\ ret[t].kind = "bool"
      /\ IsAlphaNumeric(arg[t].name) ) =>
      LET q == arg[t].name
          L == seen[t]
          M == { j \in DOMAIN L : ContainsAnyCase(L[j].deviceIdentifier, q) }
      IN  /\ SearchedOwnRescan(t)
          /\ M # {} => (ret[t].ndx + 1 = Least(M) /\ ret[t].tried # NoSlot)
          /\ (M = {} /\ Upper(q) # Upper(LegacyAlias)) =>
               (~ret[t].ok /\ ret[t].tried = NoSlot /\ ~handle[t].open)
          /\ \A v \in CaseVariants(q) : NameSearch(L, v) = ret[t].ndx
          /\ NameSearch(UpperNames(L), q) = ret[t].ndx
          /\ NameSearch(LowerNames(L), q) = ret[t].ndx

\* C10 witness: the query "KA" has selected the second snapshot, "Ka - 1",
\* the first one's name, "kB - 0", not containing it.
C10_Witness ==
  \E t \in Threads :
    /\ Finished(t, "GetFirstDeviceWithName") /\ ret[t].kind = "bool"
    /\ arg[t].name = <<"K", "A">>
    /\ Len(seen[t]) = 2
    /\ seen[t][2].deviceIdentifier = <<"K", "a", " ", "-", " ", "1">>
    /\ ret[t].ndx = 1 /\ ret[t].ok

\* A step in which thread t enters operation o.
Enters(t, o) == pc[t] = "idle" /\ pc'[t] # "idle" /\ op'[t] = o

\* C11: a call of GetFirstDeviceWithName whose query holds a character that
\* is not alphanumeric is over in the step that makes it: it takes no lock,
\* runs no scan and leaves the shared list as it was; it returns false when
\* the query holds no ':' and otherwise what opening the query as a locator
\* returns.
C11_NonAlnumQuery ==
  [][ \A t \in Threads :
        (Enters(t, "GetFirstDeviceWithName") /\ ~IsAlphaNumeric(arg'[t].name)) =>
          LET q == arg'[t].name
          IN  /\ pc'[t] = "done"
              /\ UNCHANGED <<sDevInfoList, lockOwner, lockDepth, scanned, published, nScans>>
              /\ ret'[t].kind = "bool"
              /\ ~Contains(q, <<":">>) => (~ret'[t].ok /\ ~handle'[t].open)
              /\ Contains(q, <<":">>) =>
                   (ret'[t].ok = OpenLocator(q).open /\ handle'[t] = OpenLocator(q)) ]_vars

\* C11 witness: the query "h:1" has been opened as a locator while the list
\* of an earlier scan is still in place, the call having scanned nothing.
C11_Witness ==
  \E t \in Threads :
    /\ Finished(t, "GetFirstDeviceWithName")
    /\ arg[t].name = <<"h", ":", "1">>
    /\ ret[t].kind = "bool" /\ ret[t].ok /\ handle[t].open
    /\ ~scanned[t].did
    /\ nScans = "some" /\ Len(sDevInfoList) = 2 /\ lockOwner = NoThread

\* The step in which operation o of thread t reads the list and returns.
Completes(t, o) == pc[t] = "read" /\ op[t] = o /\ pc'[t] = "done"

\* C12: GetFirstDeviceWithSerial(text) searches the list its own rescan left
\* and selects the first snapshot, in list order, whose device (the slot the
\* snapshot's index names) gives, read now, a serial text that contains text,
\* letter case disregarded; devices that give no serial text are passed over,
\* and the call returns false when no candidate matches.
C12_FirstDeviceWithSerial ==
  [][ \A t \in Threads :
        Completes(t, "GetFirstDeviceWithSerial") =>
          LET L == sDevInfoList
              M == { j \in DOMAIN L :
                       /\ HasSerialString(L[j].deviceIndex)
                       /\ ContainsAnyCase(LiveSerialString(L[j].deviceIndex), arg[t].text) }
          IN  /\ scanned[t].did /\ scanned[t].list = L
              /\ M = {} => ~ret'[t].ok
              /\ M # {} => ret'[t].ndx + 1 = Least(M) ]_vars

\* C13: a call of GetFirstDeviceFromArgument with the empty string is over in
\* the step that makes it: it returns false with outDevice closed, and it
\* takes no lock, runs no scan and leaves the shared list as it was.
C13_EmptyArgument ==
  [][ \A t \in Threads :
        (Enters(t, "GetFirstDeviceFromArgument") /\ arg'[t].name = <<>>) =>
          /\ pc'[t] = "done"
          /\ ret'[t].kind = "bool" /\ ~ret'[t].ok
          /\ ~handle'[t].open
          /\ UNCHANGED <<sDevInfoList, lockOwner, lockDepth, scanned, published, nScans>> ]_vars

\* C13 witness: the call with the empty string has returned false while the
\* two-device list of an earlier scan is still in place.
C13_Witness ==
  \E t \in Threads :
    /\ Finished(t, "GetFirstDeviceFromArgument") /\ arg[t].name = <<>>
    /\ ret[t].kind = "bool" /\ ~ret[t].ok /\ ~handle[t].open
    /\ ~scanned[t].did
    /\ nScans = "some" /\ Len(sDevInfoList) = 2 /\ lockOwner = NoThread

\* The listing commands: "?" and "LIST" in every spelling of its letters.
ListCommands == {<<"?">>} \cup CaseVariants(<<"L", "I", "S", "T">>)

\* C14: GetFirstDeviceFromArgument with "?" or with "LIST" in any letter case
\* returns false whatever devices the rescan found, leaves outDevice closed,
\* and changes nothing but the shared list, which is the list its rescan left
\* (the lock is given back, the hardware is untouched).
C14_ListCommand ==
  [][ \A t \in Threads :
        (Completes(t, "GetFirstDeviceFromArgument") /\ arg[t].name \in ListCommands) =>
          /\ ret'[t].kind = "bool" /\ ~ret'[t].ok
          /\ ~handle'[t].open
          /\ scanned[t].did /\ sDevInfoList' = scanned[t].list
          /\ lockDepth' = lockDepth - 1
          /\ lockDepth' = 0 => lockOwner' = NoThread
          /\ UNCHANGED <<hw, published, pubLog, nScans>> ]_vars

\* C14 witness: "LisT" has returned false with two devices in the list.
C14_Witness ==
  \E t \in Threads :
    /\ Finished(t, "GetFirstDeviceFromArgument")
    /\ arg[t].name = <<"L", "i", "s", "T">>
    /\ ret[t].kind = "bool" /\ ~ret[t].ok /\ ~handle[t].open
    /\ scanned[t].did /\ Len(sDevInfoList) = 2 /\ lockOwner = NoThread

\* C15: a call of GetFirstDeviceFromArgument on a raw locator (not empty, not
\* a listing command; no virtual devices in this build) takes no lock and
\* neither reads nor rebuilds the shared list, so it is over in the step that
\* makes it, whatever another thread's scan is doing, and it returns what
\* opening the string returns.
C15_LocatorBypassesLock ==
  [][ \A t \in Threads :
        ( /\ Enters(t, "GetFirstDeviceFromArgument")
          /\ arg'[t].name # <<>>
          /\ arg'[t].name \notin ListCommands ) =>
          /\ pc'[t] = "done"
          /\ UNCHANGED <<sDevInfoList, lockOwner, lockDepth, scanned, published, nScans>>
          /\ ret'[t].kind = "bool"
          /\ ret'[t].ok = OpenLocator(arg'[t].name).open
          /\ handle'[t] = OpenLocator(arg'[t].name) ]_vars

\* C17: GetDeviceRefName gives the empty string for a handle that is not
\* open; for an open one it gives the host name when the device is remote and
\* the host name is not empty, else the serial text when the device gives
\* one, else the family name when that is neither empty nor "???", else the
\* index number in decimal.
C17_RefNamePriority ==
  \A t \in Threads :
    (Finished(t, "GetDeviceRefName") /\ ret[t].kind = "name") =>
      LET h      == handle[t]
          name   == ret[t].name
          host   == h.remote /\ h.host # <<>>
          serial == h.card.serial # 0
          family == NTV2DeviceIDToString(h.card.id)
          named  == family # <<>> /\ family # <<"?", "?", "?">>
      IN  /\ ~h.open => name = <<>>
          /\ (h.open /\ host) => name = h.host
          /\ (h.open /\ ~host /\ serial) => name = SerialNum64ToString(h.card.serial)
          /\ (h.open /\ ~host /\ ~serial /\ named) => name = family
          /\ (h.open /\ ~host /\ ~serial /\ ~named) => name = DecStr(h.slot)

\* C17 witness: a remote device with a host name and a serial number has been
\* given its host name.
C17_Witness ==
  \E t \in Threads :
    /\ Finished(t, "GetDeviceRefName") /\ ret[t].kind = "name"
    /\ handle[t].open /\ handle[t].remote /\ handle[t].card.serial # 0
    /\ ret[t].name = <<"h", ":", "1">>

\* Two snapshots differ in an identity field (family id, index, serial
\* number, slot location).
Differs(a, b) ==
  \/ a.deviceID # b.deviceID
  \/ a.deviceIndex # b.deviceIndex
  \/ a.deviceSerialNumber # b.deviceSerialNumber
  \/ a.pciSlot # b.pciSlot

\* The family ids that stand for "no device": 0 and the "not found" id.
IsSentinelId(id) == id \in {0, DEVICE_ID_NOTFOUND}

\* The entries of list at the positions in P, from position p on, in order.
RECURSIVE AtPositions(_, _, _)
AtPositions(list, P, p) ==
  IF p > Len(list) THEN <<>>
  ELSE (IF p \in P THEN <<list[p]>> ELSE <<>>) \o AtPositions(list, P, p + 1)

\* C18: whatever the output lists held, CompareDeviceInfoLists leaves in
\* removed, in order, exactly the old entries at the positions where new has
\* no entry or one that differs, and in added, in order, exactly the new
\* entries at the positions where old has no entry or one that differs and
\* whose family id is not a sentinel; position p is compared with position p
\* only.
C18_PositionalDiff ==
  \A t \in Threads :
    (Finished(t, "CompareDeviceInfoLists") /\ ret[t].kind = "diff") =>
      LET old == arg[t].old
          new == arg[t].new
          R   == { p \in DOMAIN old : p > Len(new) \/ Differs(old[p], new[p]) }
          A   == { p \in DOMAIN new :
                     /\ p > Len(old) \/ Differs(old[p], new[p])
                     /\ ~IsSentinelId(new[p].deviceID) }
      IN  /\ ret[t].removed = AtPositions(old, R, 1)
          /\ ret[t].added = AtPositions(new, A, 1)

\* C18 witness: the first of two devices is gone, so the second has moved up
\* one position: both old entries are reported removed and the second one
\* added, the stale content of the output lists being dropped.
C18_Witness ==
  \E t \in Threads :
    /\ Finished(t, "CompareDeviceInfoLists") /\ ret[t].kind = "diff"
    /\ Len(arg[t].old) = 2 /\ arg[t].new = <<arg[t].old[2]>>
    /\ arg[t].added # <<>> /\ arg[t].removed # <<>>
    /\ ret[t].removed = arg[t].old
    /\ ret[t].added = arg[t].new

\* C19: CompareDeviceInfoLists of a list with itself leaves added and removed
\* empty and returns false.
C19_DiffOfListWithItself ==
  \A t \in Threads :
    ( /\ Finished(t, "CompareDeviceInfoLists") /\ ret[t].kind = "diff"
      /\ arg[t].old = arg[t].new ) =>
      /\ ret[t].added = <<>>
      /\ ret[t].removed = <<>>
      /\ ~ret[t].changed

\* C19 witness: a list of two entries compared with itself, the output lists
\* not empty when the call was made.
C19_Witness ==
  \E t \in Threads :
    /\ Finished(t, "CompareDeviceInfoLists") /\ ret[t].kind = "diff"
    /\ arg[t].old = arg[t].new /\ Len(arg[t].old) = 2
    /\ arg[t].added # <<>> /\ arg[t].removed # <<>>
    /\ ~ret[t].changed /\ ret[t].added = <<>>

\* A record that stands for no device: serial number 0, or a sentinel family id.
IsSentinelRecord(info) == info.deviceSerialNumber = 0 \/ IsSentinelId(info.deviceID)

\* C20: the added list never holds a record whose serial number is 0 or whose
\* family id is the "not found" id; every record in the tail of new (beyond
\* the length of old) that is not a sentinel record is added; the diff of the
\* empty list with <<C>> adds C when C is not a sentinel record and nothing
\* when it is.
C20_AddedExcludesSentinels ==
  \A t \in Threads :
    (Finished(t, "CompareDeviceInfoLists") /\ ret[t].kind = "diff") =>
      LET old == arg[t].old
          new == arg[t].new
      IN  /\ \A i \in DOMAIN ret[t].added :
               /\ ret[t].added[i].deviceSerialNumber # 0
               /\ ret[t].added[i].deviceID # DEVICE_ID_NOTFOUND
          /\ \A p \in (Len(old) + 1) .. Len(new) :
               ~IsSentinelRecord(new[p]) => new[p] \in Range(ret[t].added)
          /\ (old = <<>> /\ Len(new) = 1) =>
               ret[t].added = IF IsSentinelRecord(new[1]) THEN <<>> ELSE new

\* The devices a handle can be open on now: the card of every local slot that
\* opens, and the device of every host that answers.
OpenDevices ==
  { OpenAt(n) : n \in { m \in Slots : CanOpen(m) } }
    \cup { OpenLocator(x) : x \in ReachableLocators }

\* C16: when GetFirstDeviceFromArgument is given the name GetDeviceRefName
\* gives an open device D and the hardware does not change during the call,
\* it returns true with outDevice open on a device of D's serial number and
\* family id.
C16_RoundTrip ==
  [][ \A t \in Threads :
        (Completes(t, "GetFirstDeviceFromArgument") /\ ~dirty[t]) =>
          \A D \in OpenDevices :
            arg[t].name = GetDeviceRefName(D) =>
              /\ ret'[t].kind = "bool" /\ ret'[t].ok
              /\ handle'[t].open
              /\ handle'[t].card.serial = D.card.serial
              /\ handle'[t].card.id = D.card.id ]_vars

\* C21: two snapshots compare equal exactly when their family id, index,
\* serial number and slot location are equal: the diff of <<a>> with <<b>>
\* reports a removed exactly when a and b differ in one of these four fields,
\* and two lists that agree in the four fields at every position have an
\* empty diff, whatever their display names and capability fields.
C21_EqualityOnIdentityFields ==
  \A t \in Threads :
    (Finished(t, "CompareDeviceInfoLists") /\ ret[t].kind = "diff") =>
      LET old == arg[t].old
          new == arg[t].new
      IN  /\ (Len(old) = 1 /\ Len(new) = 1) =>
               ((ret[t].removed = <<>>) <=> ~Differs(old[1], new[1]))
          /\ ( /\ Len(old) = Len(new)
               /\ \A p \in DOMAIN old : ~Differs(old[p], new[p]) ) =>
               /\ ret[t].added = <<>>
               /\ ret[t].removed = <<>>
               /\ ~ret[t].changed

\* C21 witness: two lists of two snapshots, the first pair differing in the
\* display name only and the second in a capability field only, and no
\* change reported.
C21_Witness ==
  \E t \in Threads :
    /\ Finished(t, "CompareDeviceInfoLists") /\ ret[t].kind = "diff"
    /\ Len(arg[t].old) = 2 /\ Len(arg[t].new) = 2
    /\ arg[t].old[1].deviceIdentifier # arg[t].new[1].deviceIdentifier
    /\ arg[t].old[1].numVidInputs = arg[t].new[1].numVidInputs
    /\ arg[t].old[2].numVidInputs # arg[t].new[2].numVidInputs
    /\ arg[t].old[2].deviceIdentifier = arg[t].new[2].deviceIdentifier
    /\ ~ret[t].changed /\ ret[t].added = <<>> /\ ret[t].removed = <<>>

\* C22: CompareDeviceInfoLists returns true exactly when old and new differ
\* in length or hold unequal entries at some position, and false only when
\* the two lists are equal position by position.
C22_ChangedIffListsDiffer ==
  \A t \in Threads :
    (Finished(t, "CompareDeviceInfoLists") /\ ret[t].kind = "diff") =>
      LET old == arg[t].old
          new == arg[t].new
      IN  ret[t].changed <=>
            \/ Len(old) # Len(new)
            \/ \E p \in DOMAIN old : Differs(old[p], new[p])

\* The hex digits of a text: what follows its leading "0x" (the x of either
\* case), the whole text when it has no such prefix.
HexBody(s) ==
  IF Len(s) >= 2 /\ s[1] = "0" /\ s[2] \in {"x", "X"} THEN SubSeq(s, 3, Len(s)) ELSE s

AllHexDigits(s) ==
  \A i \in DOMAIN s : s[i] \in Range(HexDigitChars) \cup {"A", "B", "C", "D", "E", "F"}

\* The number a text of at most 16 hex digits spells, as a 64-bit value: its
\* k-th digit from the right has weight 16^(k-1).
HexValue(s) ==
  [i \in 1 .. 16 |->
     LET k == Len(s) - (16 - i)
     IN  IF k < 1 THEN 0
         ELSE CHOOSE d \in 0 .. 15 : s[k] \in {HexDigitChars[d + 1], UpperChar(HexDigitChars[d + 1])}]

\* C23 as stated: for every text of 1 to 16 hex digits, with or without a
\* leading 0x, IsLegalHexSerialNumber returns the value of those digits; for
\* every text with more than 16 hex digits after the prefix, or with a
\* character that is no hex digit, it returns 0.
C23_HexSerialAnyLength ==
  \A t \in Threads :
    (Finished(t, "IsLegalHexSerialNumber") /\ ret[t].kind = "u64") =>
      LET body == HexBody(arg[t].text)
      IN  /\ (Len(body) \in 1 .. 16 /\ AllHexDigits(body)) => ret[t].value = HexValue(body)
          /\ (Len(body) > 16 \/ ~AllHexDigits(body)) => ret[t].value = Zero64

\* C23: for every text of at least 3 characters that is 1 to 16 hex digits
\* after an optional leading 0x, IsLegalHexSerialNumber returns the value of
\* those digits; for every text of fewer than 3 characters, with more than 16
\* hex digits after the prefix, or with a character that is no hex digit, it
\* returns 0.
C23_HexSerialValue ==
  \A t \in Threads :
    (Finished(t, "IsLegalHexSerialNumber") /\ ret[t].kind = "u64") =>
      LET body == HexBody(arg[t].text)
      IN  /\ (Len(arg[t].text) >= 3 /\ Len(body) \in 1 .. 16 /\ AllHexDigits(body)) =>
               ret[t].value = HexValue(body)
          /\ (Len(arg[t].text) < 3 \/ Len(body) > 16 \/ ~AllHexDigits(body)) =>
               ret[t].value = Zero64

\* C23 witness: a text of fewer than 16 hex digits of both letter cases
\* behind an upper-case prefix, and its value, which is not 0.
C23_Witness ==
  \E t \in Threads :
    /\ Finished(t, "IsLegalHexSerialNumber") /\ ret[t].kind = "u64"
    /\ Len(arg[t].text) = 5 /\ arg[t].text[2] = "X"
    /\ arg[t].text[3] = "a" /\ arg[t].text[4] = "B"
    /\ ret[t].value # Zero64
    /\ ret[t].value = HexValue(HexBody(arg[t].text))

\* The characters of a serial number: letters and decimal digits.
IsLetterOrDigit(c) == c \in Range(UpperChars) \cup Range(LowerChars) \cup Range(DigitChars)

\* C24: IsLegalSerialNumber(s) is true exactly when s has 8 or 9 characters
\* and every one of them is a letter or a decimal digit.
C24_LegalSerialNumber ==
  \A t \in Threads :
    (Finished(t, "IsLegalSerialNumber") /\ ret[t].kind = "legal") =>
      (ret[t].ok <=>
         /\ Len(arg[t].text) \in {8, 9}
         /\ \A i \in DOMAIN arg[t].text : IsLetterOrDigit(arg[t].text[i]))

\* C24 witness: a text of nine letters and digits is legal.
C24_Witness ==
  \E t \in Threads :
    /\ Finished(t, "IsLegalSerialNumber") /\ ret[t].kind = "legal"
    /\ Len(arg[t].text) = 9
    /\ \E i, j \in DOMAIN arg[t].text :
         arg[t].text[i] \in Range(DigitChars) /\ arg[t].text[j] \in Range(UpperChars)
    /\ ret[t].ok

\* Thread t's ScanHardware ends with this step.
ScanEnds(t) == pc[t] = "probe" /\ pc'[t] # "probe"

\* C25: when the virtual-device mapping file is missing or does not parse,
\* ScanHardware ends without an exception reaching its caller and leaves in
\* the shared list exactly the local snapshots of the slots it opened.
C25_ConfigUnavailable ==
  [][ \A t \in Threads :
        (ScanEnds(t) /\ virtualSupport /\ cfgFile \in {"absent", "malformed"}) =>
          /\ ret'[t].kind # "exception"
          /\ pc'[t] = IF op[t] = "ScanHardware" THEN "done" ELSE "read"
          /\ sDevInfoList' = sDevInfoList
          /\ \A i \in DOMAIN sDevInfoList' : ~sDevInfoList'[i].isVirtualDevice ]_vars

\* The positions of list whose display name contains sub, letter case
\* disregarded.
NamedLike(list, sub) ==
  { j \in DOMAIN list : ContainsAnyCase(list[j].deviceIdentifier, sub) }

\* The query is the legacy alias, in whatever letter case.
IsLegacyAlias(q) == Upper(q) = <<"I", "O", "4", "K", "P", "L", "U", "S">>

\* C26: in GetFirstDeviceWithName a display name that contains the query is
\* always selected first; only when none does and the lower-cased query is
\* "io4kplus" is the search repeated with "avid dnxiv", selecting the first
\* snapshot whose lower-cased display name contains that; any other query
\* that matches nothing fails without a second search.
C26_LegacyAlias ==
  \A t \in Threads :
    ( /\ Finished(t, "GetFirstDeviceWithName") /\ ret[t].kind = "bool"
      /\ IsAlphaNumeric(arg[t].name) ) =>
      LET q == arg[t].name
          L == seen[t]
          D == NamedLike(L, q)
          A == NamedLike(L, <<"a", "v", "i", "d", " ", "d", "n", "x", "i", "v">>)
      IN  /\ D # {} => ret[t].ndx + 1 = Least(D)
          /\ (D = {} /\ IsLegacyAlias(q) /\ A # {}) =>
               (ret[t].ndx + 1 = Least(A) /\ ret[t].tried # NoSlot)
          /\ (D = {} /\ IsLegacyAlias(q) /\ A = {}) => (~ret[t].ok /\ ret[t].tried = NoSlot)
          /\ (D = {} /\ ~IsLegacyAlias(q)) => (~ret[t].ok /\ ret[t].tried = NoSlot)

\* C26 witness: asked for "IO4KPLUS" with no such name in the list, the
\* second snapshot, an "Avid DNxIV", has been selected.
C26_Witness ==
  \E t \in Threads :
    /\ Finished(t, "GetFirstDeviceWithName") /\ ret[t].kind = "bool"
    /\ arg[t].name = <<"I", "O", "4", "K", "P", "L", "U", "S">>
    /\ Len(seen[t]) = 2
    /\ seen[t][1].deviceID = 1 /\ seen[t][2].deviceID = 4
    /\ ret[t].ndx = 1 /\ ret[t].tried # NoSlot

\* C27: GetDeviceInfo(i) returns true, handing back the snapshot with index
\* field i, whenever the list it read holds a snapshot whose index field is
\* i, also when the scan left out an earlier slot that reported the "not
\* found" family id.
C27_GetDeviceInfoFindsIndex ==
  \A t \in Threads :
    (Finished(t, "GetDeviceInfo") /\ ret[t].kind = "info") =>
      LET i == arg[t].index
      IN  (\E j \in DOMAIN seen[t] : seen[t][j].deviceIndex = i) =>
            /\ ret[t].ok
            /\ Len(ret[t].info) = 1
            /\ ret[t].info[1].deviceIndex = i

\* The resolvers that search the rescanned list for a snapshot.
SearchingResolvers ==
  { "GetFirstDeviceWithID", "GetFirstDeviceWithName",
    "GetFirstDeviceWithSerial", "GetDeviceWithSerial" }

\* C28: a resolver that has matched a snapshot of the rescanned list opens
\* the local slot that snapshot's index field names, and
\* GetFirstDeviceWithSerial has read the serial text it matched from that
\* slot, whatever the hardware, slots reporting the "not found" family id
\* and left out of the list included.
C28_OpensMatchedIndex ==
  [][ \A t \in Threads : \A o \in SearchingResolvers :
        (Completes(t, o) /\ ret'[t].kind = "bool" /\ ret'[t].ndx < Len(sDevInfoList)) =>
          LET matched == sDevInfoList[ret'[t].ndx + 1]
          IN  /\ ret'[t].tried = matched.deviceIndex
              /\ o = "GetFirstDeviceWithSerial" =>
                   /\ HasSerialString(matched.deviceIndex)
                   /\ ContainsAnyCase(LiveSerialString(matched.deviceIndex), arg[t].text) ]_vars

\* C29: in an operation that rescans and then searches, no other thread's
\* scan comes between the two: from the end of its own rescan to its search
\* the thread holds the lock and the shared list is the one its rescan left,
\* and the list it has searched is that list.
C29_RescanAndSearchAtomic ==
  \A t \in Threads :
    /\ (pc[t] = "read" /\ scanned[t].did) =>
         /\ lockOwner = t
         /\ sDevInfoList = scanned[t].list
         /\ \A u \in Threads \ {t} : pc[u] # "probe"
    /\ (pc[t] = "done" /\ scanned[t].did /\ op[t] # "ScanHardware"
          /\ ret[t].kind # "exception") =>
         seen[t] = scanned[t].list

\* C29 witness: a thread has rescanned and is about to search while another
\* thread, which has called ScanHardware, is held off at the lock.
C29_Witness ==
  \E t, u \in Threads :
    /\ t # u
    /\ pc[t] = "read" /\ scanned[t].did /\ op[t] = "GetFirstDeviceWithID"
    /\ pc[u] = "scan" /\ op[u] = "ScanHardware"
    /\ lockOwner = t

C31_FailureLeavesClosed ==
  \A t \in Threads :
    op[t] \in Resolvers =>
      /\ pc[t] \in {"lock", "scan", "probe", "read"} => ~handle[t].open
      /\ (pc[t] = "done" /\ ret[t].kind = "bool" /\ ~ret[t].ok) => ~handle[t].open

\* C31 witness: a resolver was passed the outDevice an earlier call had left
\* open on a local device, searched a list that holds a device and matched
\* nothing; it has returned false and outDevice is closed.
C31_Witness ==
  \E t \in Threads :
    /\ Finished(t, "GetFirstDeviceWithID") /\ ret[t].kind = "bool"
    /\ KeepsHandle(t)
    /\ arg[t].outDevice.open /\ ~arg[t].outDevice.remote
    /\ seen[t] # <<>>
    /\ ~ret[t].ok /\ ret[t].tried = NoSlot
    /\ ~handle[t].open

====
